---- MODULE Spec2Model ----
(***************************************************************************)
(* Model of the PL2303 user-space USB serial driver (src/index.js).        *)
(*                                                                         *)
(* The driver is one class, UsbSerial.  Its constructor selects a device,  *)
(* opens it, claims the interface, resolves three endpoints, starts        *)
(* interrupt-in polling and then runs a promise chain of control           *)
(* transfers (the bring-up).  send() and close() are the other two         *)
(* operations.  The USB stack (package usb) and the event emitter          *)
(* (package events) are outside the repository: transfers complete with    *)
(* success or error as the environment decides, and emit() follows the     *)
(* emitter's documented behaviour.                                         *)
(*                                                                         *)
(* JavaScript runs one callback at a time and drains the promise           *)
(* continuations before the next callback, so every action below is one    *)
(* callback together with the continuations it triggers.                   *)
(***************************************************************************)
EXTENDS Integers, Sequences, FiniteSets, TLC

VARIABLES
  bus,        \* usb.getDeviceList(): the devices on the bus, in enumeration order
  sends,      \* number of send() calls made so far
  appSends,   \* those of them the application made itself, outside a listener
  lastSend,   \* the argument of the last send() call
  ctor,       \* "none" | "ok" | the assertion on which the constructor threw
  port,       \* const port (line 78)
  bitrate,    \* const bitrate (line 79)
  device,     \* this.device: position on the bus of the selected device, 0 if none
  devOpen,    \* the device handle is open
  claimed,    \* the interface is claimed
  intPoll,    \* interrupt-in endpoint is polling
  inPoll,     \* bulk-in endpoint is polling
  listeners,  \* the events that have a subscriber on the session
  chain,      \* the promise chain: "idle" | "running" | "ready" | "failed"
  ctl,        \* the control transfers issued so far, in order
  completed,  \* number of control transfers whose callback has run
  newBaud,    \* const newBaud of setBaudrate (line 60), 0 before it is computed
  failure,    \* the error the chain's catch received: "none" | its kind
  emits,      \* the emit() calls made so far: [ev, src, heard]
  outXfers,   \* the buffers handed to outEp.transfer, in order
  outPending, \* bulk-out transfers not yet completed
  closeSt,    \* close(): "open" | "releasing" | "closed"
  closeLog,   \* what close() has done so far, in order
  exited      \* the process has ended on an uncaught error

vars == <<bus, sends, appSends, lastSend, ctor, port, bitrate, device, devOpen, claimed,
          intPoll, inPoll, listeners, chain, ctl, completed, newBaud, failure,
          emits, outXfers, outPending, closeSt, closeLog, exited>>

(***************************************************************************)
(* Program constants                                                       *)
(***************************************************************************)
VendorId == 1659          \* 0x067b
ProductId == 8963         \* 0x2303
CdcClass == 2             \* 0x02
HxPacketSize == 64        \* 0x40
DefaultBaud == 9600
DefaultPort == 0
MaxBaud == 115200
LineBlockLen == 7
Reg8484 == 33924          \* 0x8484
Reg8383 == 33667          \* 0x8383
Reg0404 == 1028           \* 0x0404
Val44 == 68               \* 0x44

SupportedBaudrates ==
  << 75, 150, 300, 600, 1200, 1800, 2400, 3600,
     4800, 7200, 9600, 14400, 19200, 28800, 38400,
     57600, 115200, 230400, 460800, 614400,
     921600, 1228800, 2457600, 3000000, 6000000 >>

(***************************************************************************)
(* Bounds of the model                                                     *)
(***************************************************************************)
MaxEpEvents == 2     \* endpoint events (data or error) delivered in a run
MaxSends == 1        \* send() calls the application makes itself in a run (appSends)
DenseTo == 320       \* SpecRates requests every rate in 1..DenseTo

(***************************************************************************)
(* Pure helpers                                                            *)
(***************************************************************************)
Abs(x) == IF x < 0 THEN -x ELSE x

\* JavaScript's  v || d  for a numeric option: an absent option (<<>>) and
\* the number 0 are both falsy.
OrDefault(opt, d) == IF opt = <<>> \/ opt[1] = 0 THEN d ELSE opt[1]

(***************************************************************************)
(* findDevices, findEp                                                     *)
(***************************************************************************)
Ep(type, dir) == [transferType |-> type, direction |-> dir]

findDevices(devs, vid, pid) ==
  SelectSeq(devs, LAMBDA d : d.idVendor = vid /\ d.idProduct = pid)

\* The endpoints findEp's filter keeps.
EpMatches(iface, type, dir) ==
  SelectSeq(iface, LAMBDA e : e.transferType = type /\ e.direction = dir)

\* findEp's assertion: exactly one endpoint of the type and direction.
findEpOk(iface, type, dir) == Len(EpMatches(iface, type, dir)) = 1

(***************************************************************************)
(* Control transfers                                                       *)
(***************************************************************************)
\* device.controlTransfer(requestType, request, value, index, dataOrLength):
\* an IN transfer gives a length, an OUT transfer gives the bytes.
Xfer(rt, req, value, index, len, data) ==
  [bmRequestType |-> rt, bRequest |-> req, wValue |-> value, wIndex |-> index,
   wLength |-> len, data |-> data]

vendorRead(value, index) == Xfer(192, 1, value, index, 1, <<>>)     \* 0xc0, 0x01

vendorWrite(value, index) == Xfer(64, 1, value, index, 0, <<>>)     \* 0x40, 0x01

lineRead == Xfer(161, 33, 0, 0, LineBlockLen, <<>>)                 \* 0xa1, 0x21

lineWrite(parameters) == Xfer(33, 32, 0, 0, Len(parameters), parameters) \* 0x21, 0x20

\* Mutant: the two writes of register 0x0404 trade places.
ChainHeadSwapped ==
  << vendorRead(Reg8484, 0),
     vendorWrite(Reg0404, 1),
     vendorRead(Reg8484, 0),
     vendorRead(Reg8383, 0),
     vendorRead(Reg8484, 0),
     vendorWrite(Reg0404, 0),
     vendorRead(Reg8484, 0),
     vendorRead(Reg8383, 0),
     vendorWrite(0, 1),
     vendorWrite(1, 0),
     vendorWrite(2, Val44) >>

\* The constructor's chain up to the call of setBaudrate (lines 112-122).
ChainHead ==
  << vendorRead(Reg8484, 0),
     vendorWrite(Reg0404, 0),
     vendorRead(Reg8484, 0),
     vendorRead(Reg8383, 0),
     vendorRead(Reg8484, 0),
     vendorWrite(Reg0404, 1),
     vendorRead(Reg8484, 0),
     vendorRead(Reg8383, 0),
     vendorWrite(0, 1),
     vendorWrite(1, 0),
     vendorWrite(2, Val44) >>

\* setBaudrate's chain after the line-configuration write (lines 70-72).
ChainTail ==
  << vendorWrite(0, 0),
     vendorWrite(8, 0),
     vendorWrite(9, 0) >>

(***************************************************************************)
(* setBaudrate: the nearest supported rate and the line block              *)
(***************************************************************************)
\* The comparator of line 59: negative when a is to come before b.
BaudCompare(a, b, baud) == Abs(a - baud) - Abs(b - baud)

\* Insert x into the sorted sequence s behind every element that does not
\* compare greater: Array.prototype.sort is stable.
RECURSIVE InsertSorted(_, _, _)
InsertSorted(s, x, baud) ==
  IF s = <<>> THEN <<x>>
  ELSE IF BaudCompare(x, Head(s), baud) < 0 THEN <<x>> \o s
       ELSE <<Head(s)>> \o InsertSorted(Tail(s), x, baud)

RECURSIVE SortByDistance(_, _)
SortByDistance(s, baud) ==
  IF s = <<>> THEN <<>>
  ELSE InsertSorted(SortByDistance(SubSeq(s, 1, Len(s) - 1), baud), s[Len(s)], baud)

\* Mutant: the comparator ignores the sign of the distance, so entries
\* above the request sort first.
NearestBaudSigned(baud) ==
  LET above == SelectSeq(SupportedBaudrates, LAMBDA t : t >= baud)
  IN IF above = << >> THEN SupportedBaudrates[Len(SupportedBaudrates)] ELSE above[1]

\* Mutant: of the entries at the least distance the last one sorts first,
\* as under a sort that is not stable.
NearestBaudLastTie(baud) ==
  LET sorted == SortByDistance(SupportedBaudrates, baud)
      ties == SelectSeq(sorted, LAMBDA t : BaudCompare(t, sorted[1], baud) = 0)
  IN ties[Len(ties)]

\* const newBaud = list[0]  (lines 59-60)
NearestBaud(baud) == SortByDistance(SupportedBaudrates, baud)[1]

\* Byte i (0-based) of the two's complement 32-bit little-endian form of v.
Int32Byte(v, i) ==
  LET p == IF i = 0 THEN 1 ELSE IF i = 1 THEN 256 ELSE IF i = 2 THEN 65536 ELSE 16777216
  IN IF v >= 0 THEN (v \div p) % 256
     ELSE 255 - ((((-v) - 1) \div p) % 256)

\* Bytes writeInt32LE needs at its offset; on a shorter buffer it throws
\* RangeError and writes nothing.
Int32Len == 4
RangeError == "RangeError"

\* buf.writeInt32LE(v, 0): bytes 0..3 replaced, the rest kept.
writeInt32LE(buf, v) ==
  IF Len(buf) < Int32Len THEN RangeError
  ELSE [i \in 1..Len(buf) |-> IF i <= Int32Len THEN Int32Byte(v, i - 1) ELSE buf[i]]

\* Lines 63-67: the block read from the device, mutated in place. An index
\* assignment past the end of a Buffer is ignored, so a block of 4 to 6
\* bytes keeps its length; a shorter one makes writeInt32LE throw.
LineParameters(data, baud) ==
  IF Len(data) < Int32Len THEN RangeError
  ELSE LET p == writeInt32LE(data, baud)
       IN [i \in 1..Len(p) |-> IF i = 5 THEN 0         \* 1 stop bit
                               ELSE IF i = 6 THEN 0    \* no parity
                               ELSE IF i = 7 THEN 8    \* 8 bit characters
                               ELSE p[i]]

(***************************************************************************)
(* Inputs                                                                  *)
(***************************************************************************)
PL2303Eps == << Ep("interrupt", "in"), Ep("bulk", "out"), Ep("bulk", "in") >>

Dev(addr, vid, pid, cls, mps, ifaces) ==
  [deviceAddress |-> addr, idVendor |-> vid, idProduct |-> pid,
   bDeviceClass |-> cls, bMaxPacketSize0 |-> mps, interfaces |-> ifaces]

HX(addr) == Dev(addr, VendorId, ProductId, 0, HxPacketSize, << PL2303Eps >>)

Foreign(addr) == Dev(addr, VendorId, ProductId + 1, 0, HxPacketSize, << PL2303Eps >>)

\* Matching devices that violate one precondition of the constructor each.
Faulty(addr) ==
  { Dev(addr, VendorId, ProductId, CdcClass, HxPacketSize, << PL2303Eps >>),
    Dev(addr, VendorId, ProductId, 0, 8, << PL2303Eps >>),
    Dev(addr, VendorId, ProductId, 0, HxPacketSize, << >>),
    Dev(addr, VendorId, ProductId, 0, HxPacketSize, << PL2303Eps, PL2303Eps >>),
    Dev(addr, VendorId, ProductId, 0, HxPacketSize,
        << << Ep("bulk", "out"), Ep("bulk", "in") >> >>),
    Dev(addr, VendorId, ProductId, 0, HxPacketSize,
        << << Ep("interrupt", "in"), Ep("bulk", "out") >> >>),
    Dev(addr, VendorId, ProductId, 0, HxPacketSize,
        << << Ep("interrupt", "in"), Ep("bulk", "in"), Ep("bulk", "in"), Ep("bulk", "out") >> >>),
    Dev(addr, VendorId, ProductId, 0, HxPacketSize,
        << << Ep("interrupt", "in"), Ep("bulk", "in") >> >>),
    Dev(addr, VendorId, ProductId, 0, HxPacketSize,
        << << Ep("interrupt", "in"), Ep("interrupt", "in"), Ep("bulk", "in"), Ep("bulk", "out") >> >>) }

\* The buses the model is run on.
Buses ==
  { << >>,
    << Foreign(1) >>,
    << Foreign(1), HX(2), HX(3) >> }
  \cup { << d >> : d \in Faulty(1) }

\* opts.port and opts.baudRate: <<>> is an absent option.
PortOpts == { << >>, <<0>>, <<1>>, <<2>> }

BaudOpts == { << >>, <<MaxBaud + 1>> }

\* The rates SpecRates requests: every rate up to DenseTo, every table
\* entry, the midpoints of neighbouring entries and their neighbours, and
\* some rates of their own.
Midpoints ==
  { (SupportedBaudrates[i] + SupportedBaudrates[i + 1]) \div 2 + d :
      i \in 1..(Len(SupportedBaudrates) - 1), d \in {-1, 0, 1} }

RateInputs ==
  (0..DenseTo)
  \cup { SupportedBaudrates[i] : i \in 1..Len(SupportedBaudrates) }
  \cup Midpoints
  \cup { -1, 100000, MaxBaud - 1, MaxBaud + 1 }

RateOpts == { << >> } \cup { << r >> : r \in RateInputs }

\* The bus SpecRates is run on.
RatesBus == << Foreign(1), HX(2), HX(3) >>

\* What the application subscribes to right after construction.
AllEvents == {"status", "data", "ready", "error"}

Subscriptions == { AllEvents, {"data", "ready"} }

\* The blocks the device may answer the line-configuration read with: the
\* 7 bytes asked for, or fewer (a short read).
Templates ==
  { <<0, 0, 0, 0, 0, 0, 0>>,
    <<255, 255, 255, 255, 2, 4, 5>>,
    <<128, 37, 0, 0, 1, 1, 7>>,
    <<128, 37, 0, 0, 1>>,
    <<1, 2, 3>>,
    << >> }

\* Arguments of send(): Buffers, and a value that is no Buffer.
SendInputs ==
  { [isBuffer |-> TRUE, bytes |-> << >>],
    [isBuffer |-> TRUE, bytes |-> <<72, 105, 33>>],
    [isBuffer |-> FALSE, bytes |-> <<72, 105>>] }

NoSend == [isBuffer |-> FALSE, bytes |-> << >>]

\* Mutant: a buffer longer than one byte goes out in two transfers.
OutTransfersChunked(data) ==
  IF Len(data.bytes) > 1
  THEN << << Head(data.bytes) >>, Tail(data.bytes) >>
  ELSE << data.bytes >>

\* The transfers one send(data) hands to the bulk-out endpoint (line 139).
OutTransfers(data) == << data.bytes >>

\* What a 'ready' listener does: it only returns (NoSend), or it calls
\* send() with one of the arguments above, as the README's listener does.
ReadyListeners == {NoSend} \cup SendInputs

(***************************************************************************)
(* The constructor (lines 76-126)                                          *)
(***************************************************************************)
\* How far the constructor gets on the matching devices devs with port p:
\* the assertion that throws, or "ok".
CtorResult(devs, p) ==
  IF ~(Len(devs) > p) THEN "assert:devices"                       \* line 81
  ELSE LET d == devs[p + 1] IN
    IF ~(d.bDeviceClass # CdcClass) THEN "assert:class"           \* line 85
    ELSE IF ~(d.bMaxPacketSize0 = HxPacketSize) THEN "assert:packetsize" \* line 86
    ELSE IF ~(Len(d.interfaces) = 1) THEN "assert:interfaces"     \* line 89
    ELSE LET iface == d.interfaces[1] IN
      IF ~findEpOk(iface, "interrupt", "in") THEN "assert:intEp"  \* line 92
      ELSE IF ~findEpOk(iface, "bulk", "in") THEN "assert:inEp"   \* line 100
      ELSE IF ~findEpOk(iface, "bulk", "out") THEN "assert:outEp" \* line 107
      ELSE "ok"

\* Mutant: the port is ignored and the first match is taken.
SelectFirstDevice(devs, p) == devs[1].deviceAddress

\* const device = devices[port]; this.device = device (lines 82-84)
SelectDevice(devs, p) == devs[p + 1].deviceAddress

\* device.open() (line 88) has run when the constructor got this far.
OpenedAt(res) ==
  res \in {"assert:interfaces", "assert:intEp", "assert:inEp", "assert:outEp", "ok"}

\* this.iface.claim() (line 91) has run.
ClaimedAt(res) == res \in {"assert:intEp", "assert:inEp", "assert:outEp", "ok"}

\* Mutant: the constructor does not start interrupt-in polling.
IntPollNotStarted(res) == FALSE

\* intEp.startPoll() (line 99) has run.
IntPollAt(res) == res \in {"assert:inEp", "assert:outEp", "ok"}

\* Mutant: bulk-in polling is started where the endpoint is resolved, like
\* interrupt-in polling.
InPollAtConstruction(res) == res \in {"assert:outEp", "ok"}

\* The bulk-in endpoint gets its handlers in the constructor (lines 100-106)
\* but is not polled there.
InPollAt(res) == FALSE

\* The chain's first transfer (line 112) has been issued.
ChainStartedAt(res) == res = "ok"

ChainAt(res) == IF ChainStartedAt(res) THEN "running" ELSE "idle"

CtlAt(res) == IF ChainStartedAt(res) THEN << ChainHead[1] >> ELSE << >>

\* Only a constructed session can be subscribed to.
ListenersAt(res, subs) == IF res = "ok" THEN subs ELSE {}

\* new UsbSerial({port, baudRate}), followed by the application's
\* subscriptions in the same turn of the event loop.
Construct(portOpt, baudOpt, subs) ==
  /\ ~exited
  /\ ctor = "none"
  /\ LET p == OrDefault(portOpt, DefaultPort)
         devs == findDevices(bus, VendorId, ProductId)
         res == CtorResult(devs, p)
     IN /\ port' = p
        /\ bitrate' = OrDefault(baudOpt, DefaultBaud)
        /\ ctor' = res
        /\ device' = IF res = "assert:devices" THEN 0 ELSE SelectDevice(devs, p)
        /\ devOpen' = OpenedAt(res)
        /\ claimed' = ClaimedAt(res)
        /\ intPoll' = IntPollAt(res)
        /\ inPoll' = InPollAt(res)
        /\ chain' = ChainAt(res)
        /\ ctl' = CtlAt(res)
        /\ listeners' = ListenersAt(res, subs)
  /\ UNCHANGED <<exited, appSends, bus, sends, lastSend, completed, newBaud, failure, emits,
                 outXfers, outPending, closeSt, closeLog>>

(***************************************************************************)
(* EventEmitter.emit                                                       *)
(***************************************************************************)
\* this.emit(ev): the listeners of ev are called; an 'error' nobody listens
\* to is thrown by emit instead (heard = FALSE).
Emitted(log, ev, src) ==
  Append(log, [ev |-> ev, src |-> src, heard |-> ev \in listeners])

\* EventEmitter.emit('error', err) with no 'error' listener throws err.
Thrown(ev) == ev = "error" /\ "error" \notin listeners

\* An emit('error') that throws inside the catch of line 126 leaves the
\* chain's promise rejected with nobody handling it: the process ends on it
\* (Node 15 and later by default) or only prints a warning (earlier).
ExitsOnRejection == IF Thrown("error") THEN BOOLEAN ELSE {FALSE}

EpEvents == Len(SelectSeq(emits, LAMBDA e : e.src # "chain"))

(***************************************************************************)
(* The bring-up chain (lines 112-126, 56-73)                               *)
(***************************************************************************)
\* Mutant: no assertion, a rate above the limit is rounded like any other.
BaudAcceptedAny(baud) == TRUE

\* assert(baud <= 115200)  (line 57)
BaudAccepted(baud) == baud <= MaxBaud

\* Mutant: the error is reported but the chain is not left.
CatchAndGoOn(kind) ==
  /\ chain' = chain
  /\ failure' = kind
  /\ emits' = Emitted(emits, "error", "chain")
  /\ exited' \in ExitsOnRejection
  /\ UNCHANGED <<ctl, newBaud, inPoll, sends, lastSend, outXfers, outPending>>

\* .catch(err => this.emit('error', err))  (line 126)
Catch(kind) ==
  /\ chain' = "failed"
  /\ failure' = kind
  /\ emits' = Emitted(emits, "error", "chain")
  /\ exited' \in ExitsOnRejection
  /\ UNCHANGED <<ctl, newBaud, inPoll, sends, lastSend, outXfers, outPending>>

\* Mutant: the step does not wait for its transfer, the next one is issued
\* with it.
IssueUnawaited(xfer) ==
  /\ ctl' = ctl \o << xfer, xfer >>
  /\ UNCHANGED <<chain, failure, emits, newBaud, inPoll, sends, lastSend,
                 outXfers, outPending, exited>>

\* A step of the chain calls controlTransfer and returns its promise.
Issue(xfer) ==
  /\ ctl' = Append(ctl, xfer)
  /\ UNCHANGED <<chain, failure, emits, newBaud, inPoll, sends, lastSend,
                 outXfers, outPending, exited>>

\* Whether emit('ready') runs a listener whose body calls send(body): the
\* listener is attached, and it is one that sends (NoSend: one that only
\* returns).
ListenerSends(body) ==
  /\ "ready" \in listeners
  /\ body # NoSend

\* .then(() => inEp.startPoll()).then(() => this.emit('ready'))
\* .catch(err => this.emit('error', err))  (lines 124-126). emit runs the
\* 'ready' listener synchronously inside the .then of line 125, so what the
\* listener throws rejects the chain and reaches the catch of line 126: a
\* listener that calls send() with a value that is no Buffer (assertion of
\* line 138) turns the emitted 'ready' into a following 'error'.
Finish(pollOk, body) ==
  IF ~pollOk THEN Catch("startPoll")
  ELSE IF ~ListenerSends(body)
  THEN /\ inPoll' = TRUE
       /\ chain' = "ready"
       /\ emits' = Emitted(emits, "ready", "chain")
       /\ UNCHANGED <<ctl, newBaud, failure, sends, lastSend, outXfers,
                      outPending, exited>>
  ELSE /\ inPoll' = TRUE
       /\ sends' = sends + 1
       /\ lastSend' = body
       /\ UNCHANGED <<ctl, newBaud>>
       /\ IF body.isBuffer
          THEN /\ outXfers' = outXfers \o OutTransfers(body)
               /\ outPending' = outPending + Len(OutTransfers(body))
               /\ chain' = "ready"
               /\ emits' = Emitted(emits, "ready", "chain")
               /\ UNCHANGED <<failure, exited>>
          ELSE /\ chain' = "failed"
               /\ failure' = "assert"
               /\ emits' = Emitted(Emitted(emits, "ready", "chain"), "error", "chain")
               /\ exited' \in ExitsOnRejection
               /\ UNCHANGED <<outXfers, outPending>>

\* The continuation run when the k-th control transfer has succeeded.
Continue(k, data, pollOk, body) ==
  IF k < Len(ChainHead) THEN Issue(ChainHead[k + 1])
  ELSE IF k = Len(ChainHead) THEN             \* setBaudrate(device, bitrate)
    IF BaudAccepted(bitrate)
    THEN /\ newBaud' = NearestBaud(bitrate)
         /\ ctl' = Append(ctl, lineRead)
         /\ UNCHANGED <<chain, failure, emits, inPoll, sends, lastSend,
                        outXfers, outPending, exited>>
    ELSE Catch("assert")
  ELSE IF k = Len(ChainHead) + 1 THEN         \* the .then of lines 62-68
    IF Len(data) < Int32Len
    THEN Catch(RangeError)
    ELSE Issue(lineWrite(LineParameters(data, newBaud)))
  ELSE IF k < Len(ChainHead) + 2 + Len(ChainTail)
    THEN Issue(ChainTail[k - Len(ChainHead) - 1])
  ELSE Finish(pollOk, body)

\* The callback of the outstanding control transfer (lines 37-43): err
\* rejects the promise, which skips every later step up to the catch.
CtlDone(ok, data, pollOk, body) ==
  /\ ~exited
  /\ chain = "running"
  /\ completed' = completed + 1
  /\ IF ok THEN Continue(Len(ctl), data, pollOk, body) ELSE Catch("transfer")
  /\ UNCHANGED <<appSends, bus, ctor, port, bitrate, device, devOpen, claimed, intPoll,
                 listeners, closeSt, closeLog>>

(***************************************************************************)
(* Endpoint events (lines 93-110)                                          *)
(***************************************************************************)
\* A handler of lines 93-110 relays the endpoint's event with emit. What
\* emit throws leaves the handler uncaught and ends the process.
EpEmit(ev, src) ==
  /\ ~exited
  /\ EpEvents < MaxEpEvents
  /\ emits' = Emitted(emits, ev, src)
  /\ exited' = Thrown(ev)
  /\ UNCHANGED <<appSends, bus, sends, lastSend, ctor, port, bitrate, device, devOpen,
                 claimed, intPoll, inPoll, listeners, chain, ctl, completed,
                 newBaud, failure, outXfers, outPending, closeSt, closeLog>>

IntData == intPoll /\ EpEmit("status", "intEp")

\* The handler of lines 96-98 only emits: nothing in the program stops the
\* polling of an endpoint that reported an error.
IntError == intPoll /\ EpEmit("error", "intEp")

InData == inPoll /\ EpEmit("data", "inEp")

InError == inPoll /\ EpEmit("error", "inEp")

(***************************************************************************)
(* send (lines 137-140)                                                    *)
(***************************************************************************)
Send(data) ==
  /\ ~exited
  /\ ctor = "ok"
  /\ appSends < MaxSends
  /\ appSends' = appSends + 1
  /\ sends' = sends + 1
  /\ lastSend' = data
  /\ IF data.isBuffer                              \* assert(data instanceof Buffer)
     THEN /\ outXfers' = outXfers \o OutTransfers(data)
          /\ outPending' = outPending + Len(OutTransfers(data))
     ELSE UNCHANGED <<outXfers, outPending>>
  /\ UNCHANGED <<exited, bus, ctor, port, bitrate, device, devOpen, claimed, intPoll,
                 inPoll, listeners, chain, ctl, completed, newBaud, failure,
                 emits, closeSt, closeLog>>

\* A bulk-out transfer completes; without a callback the endpoint reports
\* an error as its 'error' event (lines 108-110).
OutDone(ok) ==
  /\ ~exited
  /\ outPending > 0
  /\ outPending' = outPending - 1
  /\ IF ok THEN UNCHANGED <<emits, exited>>
     ELSE /\ EpEvents < MaxEpEvents
          /\ emits' = Emitted(emits, "error", "outEp")
          /\ exited' = Thrown("error")
  /\ UNCHANGED <<appSends, bus, sends, lastSend, ctor, port, bitrate, device, devOpen,
                 claimed, intPoll, inPoll, listeners, chain, ctl, completed,
                 newBaud, failure, outXfers, closeSt, closeLog>>

(***************************************************************************)
(* close (lines 129-135)                                                   *)
(***************************************************************************)
Did(op, args) == [op |-> op, args |-> args]

\* What close(cb) does before it returns.
CloseCall == << Did("removeAllListeners", << >>), Did("release", << TRUE >>) >>

\* Mutant: the callback is invoked before the device is closed.
ReleaseCallbackFirst == << Did("cb", << >>), Did("device.close", << >>) >>

\* What the release callback does.
ReleaseCallback == << Did("device.close", << >>), Did("cb", << >>) >>

\* Mutant: close() also abandons the bring-up chain.
CloseCancels ==
  /\ ~exited
  /\ ctor = "ok"
  /\ closeSt = "open"
  /\ closeSt' = "releasing"
  /\ listeners' = {}
  /\ closeLog' = closeLog \o CloseCall
  /\ chain' = IF chain = "running" THEN "failed" ELSE chain
  /\ UNCHANGED <<exited, appSends, bus, sends, lastSend, ctor, port, bitrate, device, devOpen,
                 claimed, intPoll, inPoll, ctl, completed, newBaud, failure,
                 emits, outXfers, outPending>>

\* Mutant: close() leaves the subscribers attached.
CloseKeepsListeners ==
  /\ ~exited
  /\ ctor = "ok"
  /\ closeSt = "open"
  /\ closeSt' = "releasing"
  /\ closeLog' = closeLog \o CloseCall
  /\ UNCHANGED <<exited, appSends, bus, sends, lastSend, ctor, port, bitrate, device, devOpen,
                 claimed, intPoll, inPoll, listeners, chain, ctl, completed,
                 newBaud, failure, emits, outXfers, outPending>>

\* close(cb), called once on a constructed session.
Close ==
  /\ ~exited
  /\ ctor = "ok"
  /\ closeSt = "open"
  /\ closeSt' = "releasing"
  /\ listeners' = {}
  /\ closeLog' = closeLog \o CloseCall
  /\ UNCHANGED <<exited, appSends, bus, sends, lastSend, ctor, port, bitrate, device, devOpen,
                 claimed, intPoll, inPoll, chain, ctl, completed, newBaud, failure,
                 emits, outXfers, outPending>>

\* The callback of release(true, ...) runs (lines 131-134). It takes no
\* error argument: when the release succeeded the polls are stopped and the
\* interface is free, when it failed they are as before; the device is
\* closed and cb called in both cases.
ReleaseDone(ok) ==
  /\ ~exited
  /\ closeSt = "releasing"
  /\ closeSt' = "closed"
  /\ closeLog' = closeLog \o ReleaseCallback
  /\ claimed' = (claimed /\ ~ok)
  /\ intPoll' = (intPoll /\ ~ok)
  /\ inPoll' = (inPoll /\ ~ok)
  /\ devOpen' = FALSE
  /\ UNCHANGED <<exited, appSends, bus, sends, lastSend, ctor, port, bitrate, device, listeners,
                 chain, ctl, completed, newBaud, failure, emits, outXfers,
                 outPending>>

(***************************************************************************)
(* Specifications                                                          *)
(***************************************************************************)
Fresh ==
  /\ sends = 0
  /\ appSends = 0
  /\ lastSend = NoSend
  /\ ctor = "none"
  /\ port = 0
  /\ bitrate = 0
  /\ device = 0
  /\ devOpen = FALSE
  /\ claimed = FALSE
  /\ intPoll = FALSE
  /\ inPoll = FALSE
  /\ listeners = {}
  /\ chain = "idle"
  /\ ctl = << >>
  /\ completed = 0
  /\ newBaud = 0
  /\ failure = "none"
  /\ emits = << >>
  /\ outXfers = << >>
  /\ outPending = 0
  /\ closeSt = "open"
  /\ closeLog = << >>
  /\ exited = FALSE

Init == bus \in Buses /\ Fresh

\* The inputs the continuation of the k-th transfer reads. Only the one of
\* the line-configuration read looks at the data returned, and only the one
\* of the last transfer starts the polling and runs the 'ready' listener;
\* elsewhere the input is ignored and one value stands for all.
ChainLen == Len(ChainHead) + 2 + Len(ChainTail)
DataAt(k) == IF k = Len(ChainHead) + 1 THEN Templates ELSE { << >> }
PollAt(k) == IF k = ChainLen THEN BOOLEAN ELSE { TRUE }
BodiesAt(k) == IF k = ChainLen THEN ReadyListeners ELSE { NoSend }

CtlStep ==
  \E ok \in BOOLEAN, data \in DataAt(Len(ctl)), pollOk \in PollAt(Len(ctl)),
     body \in BodiesAt(Len(ctl)) :
    CtlDone(ok, data, pollOk, body)

Next ==
  \/ \E p \in PortOpts, b \in BaudOpts, subs \in Subscriptions : Construct(p, b, subs)
  \/ CtlStep
  \/ IntData
  \/ IntError
  \/ InData
  \/ InError
  \/ \E d \in SendInputs : Send(d)
  \/ \E ok \in BOOLEAN : OutDone(ok)
  \/ Close
  \/ \E ok \in BOOLEAN : ReleaseDone(ok)

Spec == Init /\ [][Next]_vars

\* A session constructed on RatesBus with the default port, for every
\* requested rate; then the bring-up chain alone.
InitRates ==
  /\ bus = RatesBus
  /\ sends = 0
  /\ appSends = 0
  /\ lastSend = NoSend
  /\ completed = 0
  /\ newBaud = 0
  /\ failure = "none"
  /\ emits = << >>
  /\ outXfers = << >>
  /\ outPending = 0
  /\ closeSt = "open"
  /\ closeLog = << >>
  /\ exited = FALSE
  /\ \E baudOpt \in RateOpts :
       LET p == OrDefault(<< >>, DefaultPort)
           devs == findDevices(bus, VendorId, ProductId)
           res == CtorResult(devs, p)
       IN /\ port = p
          /\ bitrate = OrDefault(baudOpt, DefaultBaud)
          /\ ctor = res
          /\ device = SelectDevice(devs, p)
          /\ devOpen = OpenedAt(res)
          /\ claimed = ClaimedAt(res)
          /\ intPoll = IntPollAt(res)
          /\ inPoll = InPollAt(res)
          /\ chain = ChainAt(res)
          /\ ctl = CtlAt(res)
          /\ listeners = ListenersAt(res, AllEvents)

NextRates == CtlStep

SpecRates == InitRates /\ [][NextRates]_vars

(***************************************************************************)
(* Properties                                                              *)
(***************************************************************************)
\* What the properties read off the logs.
Addressing(x) == << x.bmRequestType, x.bRequest, x.wValue, x.wIndex >>

EmitCount(ev, src) == Len(SelectSeq(emits, LAMBDA e : e.ev = ev /\ e.src = src))

ReadyCount == EmitCount("ready", "chain")

ChainErrors == EmitCount("error", "chain")

\* A bring-up step has failed: the chain was rejected before 'ready' was
\* emitted. (A rejection after it comes from a 'ready' listener.)
BringUpFailed == failure # "none" /\ ReadyCount = 0

\* The rate a line block carries in its bytes 0..3, little-endian.
BlockRate(b) == b[1] + 256 * b[2] + 65536 * b[3] + 16777216 * b[4]

TableRates == { SupportedBaudrates[i] : i \in 1..Len(SupportedBaudrates) }

\* The sixteen control transfers of the bring-up: request type, request,
\* value, index.
C1_Order ==
  << <<192, 1, 33924, 0>>, <<64, 1, 1028, 0>>, <<192, 1, 33924, 0>>,
     <<192, 1, 33667, 0>>, <<192, 1, 33924, 0>>, <<64, 1, 1028, 1>>,
     <<192, 1, 33924, 0>>, <<192, 1, 33667, 0>>, <<64, 1, 0, 1>>,
     <<64, 1, 1, 0>>, <<64, 1, 2, 68>>, <<161, 33, 0, 0>>, <<33, 32, 0, 0>>,
     <<64, 1, 0, 0>>, <<64, 1, 8, 0>>, <<64, 1, 9, 0>> >>

\* C1: for every requested rate up to 115200 the control transfers are
\* issued in the one fixed order of the sixteen transfers of C1_Order (the log is
\* always a prefix of it), the vendor reads ask for one byte, the vendor
\* writes carry no payload, and only the line-configuration write carries
\* data.
C1_FixedOrder ==
  bitrate <= 115200 =>
    /\ Len(ctl) <= Len(C1_Order)
    /\ \A i \in 1..Len(ctl) :
         /\ Addressing(ctl[i]) = C1_Order[i]
         /\ (i # 13 => ctl[i].data = << >>)
         /\ (ctl[i].bmRequestType = 192 => ctl[i].wLength = 1)
         /\ (ctl[i].bmRequestType = 64 => ctl[i].wLength = 0)
         /\ (i = 12 => ctl[i].wLength = 7)
    /\ (chain = "ready" => Len(ctl) = Len(C1_Order))

C1_Witness ==
  /\ bitrate = 19200
  /\ chain = "ready"
  /\ Len(ctl) = 16

\* C4: for a requested rate in 1..115200 the rate written into the line
\* configuration is a table entry at minimal distance from the request; a
\* request that is a table entry is written unchanged, and 100000 gives
\* 115200.
C4_NearestWritten ==
  (Len(ctl) >= 13 /\ bitrate >= 1 /\ bitrate <= 115200) =>
    LET w == BlockRate(ctl[13].data) IN
      /\ w \in TableRates
      /\ \A t \in TableRates : Abs(w - bitrate) <= Abs(t - bitrate)
      /\ (bitrate \in TableRates => w = bitrate)
      /\ (bitrate = 9600 => w = 9600)
      /\ (bitrate = 100000 => w = 115200)

C4_Witness ==
  /\ bitrate = 100000
  /\ Len(ctl) >= 13
  /\ BlockRate(ctl[13].data) = 115200

\* C5: for a requested rate above 115200 no line-configuration transfer is
\* issued, nothing after it runs (no later transfer, no bulk-in polling, no
\* 'ready'), no rate is negotiated, and once the chain has ended exactly one
\* 'error' has been emitted for it.
C5_RejectedAbove ==
  bitrate > 115200 =>
    /\ Len(ctl) <= 11
    /\ \A i \in 1..Len(ctl) : ctl[i].bmRequestType \notin {161, 33}
    /\ newBaud = 0
    /\ ~inPoll
    /\ ReadyCount = 0
    /\ chain \in {"running", "failed"}
    /\ (chain = "failed" => ChainErrors = 1 /\ failure \in {"assert", "transfer"})
    /\ (failure = "assert" => Len(ctl) = 11)

C5_Witness ==
  /\ bitrate = 230400
  /\ chain = "failed"
  /\ failure = "assert"
  /\ Len(ctl) = 11

\* C6: the line-configuration write (0x21/0x20) sends seven bytes: the
\* negotiated rate little-endian in bytes 0..3, then 0, 0, 8, whatever
\* block the read returned; for 38400 the block is 00 96 00 00 00 00 08.
C6_LineBlock ==
  Len(ctl) >= 13 =>
    LET x == ctl[13] v == newBaud IN
      /\ x.bmRequestType = 33 /\ x.bRequest = 32
      /\ v <= 115200
      /\ x.data = << v % 256, (v \div 256) % 256, (v \div 65536) % 256,
                     (v \div 16777216) % 256, 0, 0, 8 >>
      /\ (v = 38400 => x.data = << 0, 150, 0, 0, 0, 0, 8 >>)

\* C2: once a bring-up step has failed and close() has not been called,
\* the chain has ended as failed, exactly one 'error' has been emitted for
\* it and no 'ready'; and from then on no further control transfer is
\* issued, bulk-in polling is not started and 'ready' is not emitted.
C2_FailFast ==
  /\ []((BringUpFailed /\ closeSt = "open") =>
          (chain = "failed" /\ ChainErrors = 1 /\ ~inPoll))
  /\ [][(BringUpFailed /\ closeSt' = "open") =>
          (ctl' = ctl /\ inPoll' = inPoll /\ ChainErrors' = ChainErrors
           /\ ReadyCount' = 0 /\ failure' = failure)]_vars

C2_Witness ==
  /\ failure = "transfer"
  /\ closeSt = "open"
  /\ Len(ctl) = 7
  /\ Len(emits) = 2
  /\ emits[1].ev = "error" /\ emits[1].src = "chain"
  /\ emits[2].ev = "status"

\* C3: 'ready' at most once and only after the sixteen transfers
\* and the start of bulk-in polling; and when the chain has ended without
\* any control transfer having failed, 'ready' has been emitted exactly once.
C3_ReadyWheneverTransfersSucceed ==
  /\ ReadyCount <= 1
  /\ (ReadyCount = 1 => chain # "running" /\ Len(ctl) = 16 /\ completed = 16)
  /\ ((ctor = "ok" /\ chain # "running" /\ failure # "transfer") => ReadyCount = 1)

\* C7: with n matching devices on the bus, a port p < n selects the
\* (p+1)-th of them in enumeration order, and a port p >= n fails the
\* device-count assertion with nothing selected, opened or started; on the
\* bus with two matching devices (at addresses 2 and 3) port 0 selects the
\* first, port 1 the second and port 2 fails.
C7_PortSelects ==
  ctor # "none" =>
    LET match == { i \in 1..Len(bus) : bus[i].idVendor = 1659 /\ bus[i].idProduct = 8963 }
        n == Cardinality(match)
    IN /\ (port < n =>
             /\ ctor # "assert:devices"
             /\ \E i \in match :
                  /\ Cardinality({ j \in match : j <= i }) = port + 1
                  /\ device = bus[i].deviceAddress)
       /\ (port >= n =>
             /\ ctor = "assert:devices"
             /\ device = 0 /\ ~devOpen /\ ~claimed /\ chain = "idle" /\ ctl = << >>)
       /\ (bus = << Foreign(1), HX(2), HX(3) >> =>
             /\ (port = 0 => device = 2 /\ ctor = "ok")
             /\ (port = 1 => device = 3 /\ ctor = "ok")
             /\ (port = 2 => device = 0 /\ ctor = "assert:devices"))

C7_Witness ==
  /\ bus = << Foreign(1), HX(2), HX(3) >>
  /\ port = 1
  /\ device = 3
  /\ ctor = "ok"

\* C8: on a constructed session send(buffer) is never refused, whatever the
\* state of the bring-up; each call with a Buffer hands exactly one transfer
\* with exactly the given bytes to the bulk-out endpoint and changes nothing
\* of the bring-up, the polling, the subscriptions or the teardown.
C8_SendTransfers ==
  /\ []((ctor = "ok" /\ appSends < MaxSends /\ ~exited) =>
          \A d \in SendInputs : ENABLED Send(d))
  /\ [][(sends' = sends + 1 /\ ~lastSend'.isBuffer) =>
          UNCHANGED <<outXfers, outPending>>]_vars
  /\ [][(sends' = sends + 1 /\ lastSend'.isBuffer) =>
          (/\ outXfers' = Append(outXfers, lastSend'.bytes)
           /\ outPending' = outPending + 1
           /\ (completed' = completed =>      \* not a send from a 'ready' listener
                 UNCHANGED <<chain, ctl, failure, newBaud, intPoll, inPoll,
                             emits, listeners, closeSt, devOpen, claimed>>))]_vars

\* Two sends in one run: one while the bring-up runs, one from the 'ready'
\* listener, each handed to the endpoint as one transfer.
C8_Witness ==
  /\ chain = "ready"
  /\ sends = 2
  /\ lastSend = [isBuffer |-> TRUE, bytes |-> <<72, 105, 33>>]
  /\ outXfers = << << >>, <<72, 105, 33>> >>
  /\ emits = << [ev |-> "ready", src |-> "chain", heard |-> TRUE] >>

\* The four effects of a close(cb), in order.
C9_Teardown ==
  << [op |-> "removeAllListeners", args |-> << >>],
     [op |-> "release", args |-> << TRUE >>],
     [op |-> "device.close", args |-> << >>],
     [op |-> "cb", args |-> << >>] >>

\* C9: what close(cb) does is always a prefix of: detach all subscribers,
\* request the release with the reset flag true, close the device, invoke
\* the callback with no arguments.  The first two happen in the call, the
\* last two when the release has completed, and the device is open until
\* then.
C9_CloseOrder ==
  /\ [](/\ Len(closeLog) <= 4
        /\ closeLog = SubSeq(C9_Teardown, 1, Len(closeLog))
        /\ (closeSt = "open" => closeLog = << >>)
        /\ (closeSt = "releasing" => Len(closeLog) = 2 /\ devOpen /\ listeners = {})
        /\ (closeSt = "closed" => Len(closeLog) = 4 /\ ~devOpen /\ listeners = {}))
  /\ [][(devOpen /\ ~devOpen') => (closeSt = "releasing" /\ closeSt' = "closed")]_vars

C9_Witness ==
  /\ closeSt = "closed"
  /\ Len(closeLog) = 4
  /\ closeLog[4].op = "cb"
  /\ ~devOpen

\* C10: whenever a bring-up transfer has been issued and the session is not
\* torn down, interrupt-in polling is running, so that while the chain runs
\* a 'status' can be emitted at every point (within the model's budget
\* of endpoint events).
C10_StatusAnyTime ==
  /\ ((ctl # << >> /\ closeSt # "closed") => intPoll)
  /\ ((chain = "running" /\ closeSt # "closed" /\ EpEvents < MaxEpEvents
       /\ ~exited) =>
         ENABLED IntData)

\* A run in which 'status' is emitted strictly before 'ready'.
C10_Witness ==
  \E i, j \in 1..Len(emits) :
    /\ i < j
    /\ emits[i].ev = "status"
    /\ emits[j].ev = "ready"

\* A run in which 'status' is emitted, the bring-up then fails and no
\* 'ready' is emitted.
C10_StatusThenFailure ==
  /\ Len(emits) = 2
  /\ emits[1].ev = "status"
  /\ emits[2].ev = "error" /\ emits[2].src = "chain"
  /\ chain = "failed"

\* What the later properties read off the logs.
EpErrorCount ==
  Len(SelectSeq(emits, LAMBDA e : e.ev = "error" /\ e.src # "chain"))

DataCount == EmitCount("data", "inEp")

Threw == ctor \notin {"none", "ok"}

\* C11: when the constructor throws on a violated precondition, no session
\* exists, no bring-up transfer is ever issued and neither 'ready' nor
\* 'error' is ever emitted.
C11_NothingAfterThrow ==
  Threw =>
    /\ chain = "idle"
    /\ ctl = << >>
    /\ \A i \in 1..Len(emits) : emits[i].ev \notin {"ready", "error"}

\* C12: at most one bring-up control transfer is outstanding at any moment
\* (exactly one while the chain runs, none otherwise), and a transfer is
\* issued only by a step at which every earlier one has completed, however
\* endpoint events, sends and close() interleave.
C12_OneOutstanding ==
  /\ [](/\ Len(ctl) - completed \in {0, 1}
        /\ (chain = "running" => Len(ctl) - completed = 1)
        /\ (chain # "running" => Len(ctl) - completed = 0))
  /\ [][Len(ctl') # Len(ctl) =>
          (Len(ctl') = Len(ctl) + 1 /\ completed' = Len(ctl))]_vars

C12_Witness ==
  /\ Len(ctl) = 6
  /\ completed = 5
  /\ chain = "running"
  /\ Len(emits) = 1 /\ emits[1].src = "intEp"
  /\ sends = 1
  /\ outPending = 1
  /\ closeSt = "releasing"

\* C13: a step in which an endpoint (interrupt-in, bulk-in, bulk-out)
\* reports an error emits 'error' and changes nothing else of the session:
\* claim, device handle, polling, subscriptions, teardown state and
\* bring-up progress stay as they are and the process lives on; after such
\* an error a send is still accepted, a running chain can still complete
\* its transfer and a polling endpoint can still relay.
C13_ErrorDoesNotHalt ==
  /\ [][EpErrorCount' # EpErrorCount =>
          (/\ EpErrorCount' = EpErrorCount + 1
           /\ Len(emits') = Len(emits) + 1
           /\ UNCHANGED <<claimed, devOpen, intPoll, inPoll, listeners, closeSt,
                          closeLog, chain, ctl, completed, failure, newBaud,
                          outXfers, sends, exited>>)]_vars
  /\ [](EpErrorCount > 0 =>
          (/\ ((ctor = "ok" /\ appSends < MaxSends) =>
                 \A d \in SendInputs : ENABLED Send(d))
           /\ (chain = "running" => ENABLED CtlStep)
           /\ ((intPoll /\ EpEvents < MaxEpEvents) => ENABLED IntData)
           /\ ((inPoll /\ EpEvents < MaxEpEvents) => ENABLED InData)))

\* C14: close() and the completion of the release leave the bring-up chain
\* as it is, and a running chain can complete its outstanding transfer in
\* every state of the living process, whatever the state of the teardown.
C14_CloseDoesNotCancel ==
  /\ [][closeSt' # closeSt =>
          UNCHANGED <<chain, ctl, completed, failure>>]_vars
  /\ []((chain = "running" /\ ~exited) => ENABLED CtlStep)

\* A run in which, after the device handle was closed, the chain went on to
\* start bulk-in polling and emit 'ready' (to nobody).
C14_Witness ==
  /\ closeSt = "closed"
  /\ ~devOpen
  /\ chain = "ready"
  /\ inPoll
  /\ Len(emits) = 1
  /\ emits[1].ev = "ready" /\ ~emits[1].heard

\* C15: every bring-up failure is emitted as exactly one 'error' that a
\* subscriber receives, also when close() came first.
C15_ErrorReachesSubscriber ==
  BringUpFailed =>
    /\ ChainErrors = 1
    /\ \A i \in 1..Len(emits) :
         (emits[i].ev = "error" /\ emits[i].src = "chain") => emits[i].heard

\* C16: bulk-in polling runs only when all sixteen control transfers have
\* completed successfully, and it is started by that very step, the one that
\* emits 'ready'; 'data' is emitted only after that, and never in a run in
\* which a bring-up step failed.
C16_BulkInAfterBringUp ==
  /\ [](/\ (inPoll => (chain # "running" /\ Len(ctl) = 16 /\ completed = 16
                       /\ ReadyCount = 1 /\ ~BringUpFailed))
        /\ (DataCount > 0 => (completed = 16 /\ ReadyCount = 1))
        /\ (BringUpFailed => (DataCount = 0 /\ ~inPoll)))
  /\ [][(inPoll' /\ ~inPoll) =>
          (chain = "running" /\ Len(ctl) = 16 /\ completed' = 16
           /\ chain' # "running" /\ ReadyCount' = 1)]_vars

C16_Witness ==
  /\ chain = "ready"
  /\ Len(emits) = 2
  /\ emits[1].ev = "ready"
  /\ emits[2].ev = "data" /\ emits[2].src = "inEp"

\* C17: when a requested rate up to 115200 is at the same least distance
\* from two table entries, the lower one is negotiated: 225 gives 150, 450
\* gives 300, 86400 gives 57600.
C17_TieTakesLower ==
  (newBaud # 0 /\ bitrate <= 115200) =>
    /\ \A t \in TableRates :
         Abs(t - bitrate) = Abs(newBaud - bitrate) => newBaud <= t
    /\ (bitrate = 225 => newBaud = 150)
    /\ (bitrate = 450 => newBaud = 300)
    /\ (bitrate = 86400 => newBaud = 57600)
    /\ (Len(ctl) >= 13 => BlockRate(ctl[13].data) = newBaud)

C17_Witness ==
  /\ bitrate = 86400
  /\ newBaud = 57600
  /\ Len(ctl) >= 13
  /\ BlockRate(ctl[13].data) = 57600

\* C18: when the constructor throws on a violated precondition, the device
\* handle is not open, the interface is not claimed and interrupt-in
\* polling is not running.
C18_NothingAcquired ==
  Threw => (~devOpen /\ ~claimed /\ ~intPoll)

\* C19: a requested rate above 115200 is rejected by the constructor
\* itself: no session, no vendor register operation issued, no 'error'
\* emitted later.
C19_RejectedBeforeBringUp ==
  bitrate > 115200 =>
    /\ ctor # "ok"
    /\ ctl = << >>
    /\ ChainErrors = 0

\* C20: once close() has been invoked no subscriber receives anything:
\* every later emit, of whatever event, finds no listener.
C20_SilentAfterClose ==
  /\ [][(closeSt # "open" /\ Len(emits') > Len(emits)) =>
          (\A i \in (Len(emits) + 1)..Len(emits') : ~emits'[i].heard)]_vars
  /\ [](closeSt # "open" => listeners = {})

\* After close(), bulk-in data arrives and is emitted to nobody.
C20_Witness ==
  /\ closeSt # "open"
  /\ Len(emits) = 2
  /\ emits[1].ev = "ready" /\ emits[1].heard
  /\ emits[2].ev = "data" /\ ~emits[2].heard

====
